---- MODULE Spec2Model ----
(***************************************************************************)
(* SoundScope music visualizer: the audio feature extractor                *)
(* (AudioProcessor), the App component that owns playback state, and the   *)
(* visualization engine (VisualizerCanvas) with its five visualizers.      *)
(*                                                                         *)
(* Conventions.  A Uint8Array is a sequence of bytes; JavaScript index i   *)
(* is index i+1 here.  A requestAnimationFrame handle is a positive        *)
(* number, 0 stands for null/undefined.  Real-valued quantities are kept   *)
(* as exact integers: a bass average is kept as the sum of the bass bins   *)
(* (the average times bassEnd, which is the same on every tick), and the   *)
(* volume as the sum of squares  SUM (sample - 128)^2  (the reported       *)
(* volume is sqrt(sum / length) / 128).                                    *)
(***************************************************************************)
EXTENDS Integers, Sequences, FiniteSets, TLC

\* ------------------------------------------------------------------ bounds
MaxTicks == 3          \* frames the extractor delivers in one behaviour
MaxBeatTicks == 6      \* the same, where only the beat detector is exercised
MaxEngineTicks == 1    \* the same, where the engine is exercised
MaxWaveFrames == 1     \* frames a Waveform instance collects from the frame loop
MaxDestroys == 3       \* calls of the extractor's destroy() in one behaviour
MaxSustained == 16     \* ticks of the elevated section after a step of the bass
BurstWarmTicks == 60   \* silent ticks before a full-scale burst
BurstTicks == 5        \* ticks of the burst

MaxFrameLength == 8
MaxCalls == 2
MaxVolumeTicks == 2
MaxRampTicks == 46
MaxLifeCalls == 102
RampStride == 37

\* ------------------------------------------------------- program constants
InitialBufferSize == 256    \* new Uint8Array(256) in the constructor
fftSize == 256              \* analyser.fftSize
bassBins == 12              \* Math.min(12, frequencyData.length)
historyCapacity == 43       \* bassHistory.length > 43
minBeatInterval == 200      \* ms
beatThresholdNum == 12      \* beatThreshold = 1.2 = 12 / 10
beatThresholdDen == 10
ByteCentre == 128           \* (timeDomainData[i] - 128) / 128
ByteMax == 255

frequencyBinCount == fftSize \div 2

Min(a, b) == IF a < b THEN a ELSE b

\* ------------------------------------------------------------ byte arrays
NewUint8Array(n) == [i \in 1..n |-> 0]

\* The sum s[lo] + ... + s[hi], by halves.
RECURSIVE SumRange(_, _, _)
SumRange(s, lo, hi) ==
    IF lo > hi THEN 0
    ELSE IF lo = hi THEN s[lo]
    ELSE LET mid == (lo + hi) \div 2
         IN  SumRange(s, lo, mid) + SumRange(s, mid + 1, hi)
SumTo(s, n) == SumRange(s, 1, n)
SumSeq(s) == SumTo(s, Len(s))

\* What the analyser holds: a spectrum of frequencyBinCount bytes and a
\* waveform of fftSize bytes.  With no connected source, or a context that
\* never ran, it holds silence: magnitude 0 and the byte centre 128.
SpectrumOf(bass, rest) ==
    [i \in 1..frequencyBinCount |-> IF i <= bassBins THEN bass ELSE rest]
WaveOf(lo, hi) == [i \in 1..fftSize |-> IF i % 2 = 1 THEN lo ELSE hi]
SilentSpectrum == SpectrumOf(0, 0)
SilentWave == WaveOf(ByteCentre, ByteCentre)

\* AnalyserNode.getByteFrequencyData(array): the first
\* min(array.length, frequencyBinCount) elements are written, the others
\* are left as they are.
getByteFrequencyData(array, spectrum) ==
    [i \in 1..Len(array) |->
        IF i <= frequencyBinCount THEN spectrum[i] ELSE array[i]]

\* AnalyserNode.getByteTimeDomainData(array): likewise with fftSize.
getByteTimeDomainData(array, wave) ==
    [i \in 1..Len(array) |-> IF i <= fftSize THEN wave[i] ELSE array[i]]

\* calculateVolume: the sum of (sample - 128)^2; the method returns
\* sqrt(sum / length) / 128.
RECURSIVE SumSquares(_, _, _)
SumSquares(s, lo, hi) ==
    IF lo > hi THEN 0
    ELSE IF lo = hi THEN (s[lo] - ByteCentre) * (s[lo] - ByteCentre)
    ELSE LET mid == (lo + hi) \div 2
         IN  SumSquares(s, lo, mid) + SumSquares(s, mid + 1, hi)

VolumeUncentred(timeDomain) ==
    SumSquares([i \in 1..Len(timeDomain) |-> timeDomain[i] + ByteCentre],
               1, Len(timeDomain))

calculateVolume(timeDomain) == SumSquares(timeDomain, 1, Len(timeDomain))


\* ------------------------------------------------------------------- state
VARIABLES
    ap,          \* the AudioProcessor instance: its fields
    raf,         \* pending requestAnimationFrame callbacks: [id, cb]
    app,         \* App state: isPlaying, audioData, settings
    eng,         \* VisualizerCanvas refs: visualizerRef, animationFrameRef,
                 \* the container rect, the canvas size, devicePixelRatio
    visualizers, \* the visualizer instances on the heap, by address: the
                 \* current one and the one it replaced (an instance
                 \* replaced twice over is unreachable and is collected)
    now,         \* Date.now() at the latest detectBeat call, in ms
    signal,      \* the bass signal the audio element plays, when it is a
                 \* prescribed one: [warm, base, step, sustain]
    direct,      \* a visualizer instance that is called directly, through
                 \* its public methods: [instance, call]
    obs          \* observations of the latest step (history variables)

vars == <<ap, raf, app, eng, visualizers, now, signal, direct, obs>>

\* The whole state as one record, so that a handler is a function from state
\* to state and the calls it makes compose.
Sys == [ap |-> ap, raf |-> raf, app |-> app, eng |-> eng,
        visualizers |-> visualizers, now |-> now, obs |-> obs]

Becomes(S) ==
    /\ ap' = S.ap
    /\ raf' = S.raf
    /\ app' = S.app
    /\ eng' = S.eng
    /\ visualizers' = S.visualizers
    /\ now' = S.now
    /\ signal' = signal
    /\ direct' = direct
    /\ obs' = S.obs

\* ------------------------------------------------- requestAnimationFrame
\* A handle is unique among the pending callbacks and the handles the
\* program still stores; which number it is has no other meaning.  `held`
\* is the handle the caller's own field holds, which the call overwrites.
RafIds(S, held) ==
    ({r.id : r \in S.raf} \cup {S.ap.animationFrame, S.eng.animationFrameRef})
        \ ({held} \ {r.id : r \in S.raf})

FreshId(S, held) == CHOOSE n \in 1..(Cardinality(S.raf) + 3) :
    /\ n \notin RafIds(S, held)
    /\ \A m \in 1..(n - 1) : m \in RafIds(S, held)

cancelAnimationFrame(S, id) ==
    [S EXCEPT !.raf = {r \in S.raf : r.id # id}]

\* ---------------------------------------------------------- AudioProcessor
\* detectBeat: the history entry is bassSum (= bassAverage * bassEnd), so
\*   bassAverage > recentAverage * beatThreshold
\* is  bassSum * length * 10 > historySum * 12.
bassEndOf(frequencyData) == Min(bassBins, Len(frequencyData))
bassSumOf(frequencyData) == SumTo(frequencyData, bassEndOf(frequencyData))

PushBassDropsNewest(history, bassSum) ==
    LET pushed == Append(history, bassSum)
    IN  IF Len(pushed) > historyCapacity THEN SubSeq(pushed, 1, historyCapacity) ELSE pushed

PushBass(history, bassSum) ==
    LET pushed == Append(history, bassSum)
    IN  IF Len(pushed) > historyCapacity THEN Tail(pushed) ELSE pushed

AboveMean(bassSum, history) == bassSum * Len(history) > SumSeq(history)

ReachesThreshold(bassSum, history) ==
    bassSum * Len(history) * beatThresholdDen >= SumSeq(history) * beatThresholdNum

AboveThreshold(bassSum, history) ==
    bassSum * Len(history) * beatThresholdDen > SumSeq(history) * beatThresholdNum

IntervalElapsedLoose(timeSinceLastBeat) == TRUE

IntervalElapsed(timeSinceLastBeat) == timeSinceLastBeat > minBeatInterval

detectBeat(p, t) ==
    LET bassSum == bassSumOf(p.frequencyData)
        history == PushBass(p.bassHistory, bassSum)
        beat == /\ AboveThreshold(bassSum, history)
                /\ IntervalElapsed(t - p.lastBeatTime)
    IN  [beat |-> beat,
         ap |-> [p EXCEPT !.bassHistory = history,
                          !.lastBeatTime = IF beat THEN t ELSE @]]

\* The connections of the audio graph: source.connect(analyser) and
\* analyser.connect(audioContext.destination).
SourceToAnalyser == <<"source", "analyser">>
AnalyserToDestination == <<"analyser", "destination">>

\* AudioNode.disconnect(): every outgoing connection of the node is removed;
\* a node without connections is left as it is.
disconnect(S, node) ==
    [S EXCEPT !.ap.connections = {c \in @ : c[1] # node}]

\* AudioContext.close(): the context becomes closed; on a context that is
\* closed already the returned promise is rejected with InvalidStateError,
\* and destroy() attaches no handler to it.
close(S) ==
    IF S.ap.audioContext = "closed"
    THEN [S EXCEPT !.obs.errors = @ \cup {"unhandledrejection: InvalidStateError"}]
    ELSE [S EXCEPT !.ap.audioContext = "closed"]

\* What the analyser node holds when it is read: the signal of the audio
\* element when the source is connected and the context runs, else silence.
AnalyserHolds(p, in) ==
    IF /\ p.source
       /\ SourceToAnalyser \in p.connections
       /\ p.audioContext = "running"
    THEN [spectrum |-> in.spectrum, wave |-> in.wave]
    ELSE [spectrum |-> SilentSpectrum, wave |-> SilentWave]

\* setAudioData, the registered consumer: App's audioData becomes the frame.
setAudioData(S, frame) ==
    [S EXCEPT !.app.audioData = frame,
              !.obs.delivered = TRUE,
              !.obs.frameBeatDetection = S.app.settings.beatDetection]

requestProcessAudioData(S) ==
    LET id == FreshId(S, S.ap.animationFrame)
    IN  [S EXCEPT !.raf = @ \cup {[id |-> id, cb |-> "processAudioData"]},
                  !.ap.animationFrame = id]

SameArray(array) == [object |-> "buffer", bytes |-> array]

\* Uint8Array.prototype.slice(): a new array object with the bytes that
\* `array` has at the call.  object tells which array object the result is:
\* a new one, or the processor's own buffer.
slice(array) == [object |-> "new", bytes |-> array]

\* A frame as it reads once the processor's buffers are those of p: an array
\* of the frame that is the processor's buffer reads as the buffer does.
\* volume and beat are a number and a boolean, which nothing can write to.
ReadFrame(frame, arrays, p) ==
    [frame EXCEPT
        !.frequencyData = IF arrays.frequencyData = "buffer"
                          THEN p.frequencyData ELSE @,
        !.timeDomainData = IF arrays.timeDomainData = "buffer"
                           THEN p.timeDomainData ELSE @]

\* processAudioData, with the analyser's signal and the clock as inputs.
\* obs.frameArrays tells which array objects the consumer's frame holds,
\* and obs.superseded what the frame the consumer held before this tick
\* was when it was delivered and is after this tick wrote the buffers.
processAudioData(S, in) ==
    IF ~S.ap.analyser \/ ~S.ap.onDataUpdate
    THEN requestProcessAudioData(S)
    ELSE LET held == AnalyserHolds(S.ap, in)
             read == [S.ap EXCEPT
                        !.frequencyData = getByteFrequencyData(@, held.spectrum),
                        !.timeDomainData = getByteTimeDomainData(@, held.wave)]
             volume == calculateVolume(read.timeDomainData)
             db == detectBeat(read, in.now)
             frequencyData == slice(read.frequencyData)
             timeDomainData == slice(read.timeDomainData)
             frame == [frequencyData |-> frequencyData.bytes,
                       timeDomainData |-> timeDomainData.bytes,
                       volume |-> volume,
                       beat |-> db.beat]
             S1 == [S EXCEPT !.ap = db.ap,
                             !.now = in.now,
                             !.obs.superseded =
                                 [was |-> S.app.audioData,
                                  is |-> ReadFrame(S.app.audioData, S.obs.frameArrays, read)],
                             !.obs.frameArrays =
                                 [frequencyData |-> frequencyData.object,
                                  timeDomainData |-> timeDomainData.object],
                             !.obs.tick = [beat |-> db.beat,
                                           at |-> in.now,
                                           lastBeatTime |-> S.ap.lastBeatTime],
                             !.obs.beatLog = IF db.beat THEN Append(@, in.now) ELSE @,
                             !.obs.bassLog = Append(@, bassSumOf(read.frequencyData)),
                             !.obs.ticks = @ + 1]
         IN  requestProcessAudioData(setAudioData(S1, frame))

startProcessing(S, in) ==
    IF S.ap.isProcessing
    THEN S
    ELSE processAudioData([S EXCEPT !.ap.isProcessing = TRUE], in)

\* initializeAudioContext; failAt names the call that throws ("none" when
\* none does) and contextState the state the new AudioContext is created in.
initializeAudioContext(S, failAt, contextState, in) ==
    IF failAt = "context" THEN S
    ELSE LET S1 == [S EXCEPT !.ap.audioContext = contextState]
    IN   IF failAt = "analyser" THEN S1
    ELSE LET S2 == [S1 EXCEPT !.ap.analyser = TRUE]
    IN   IF failAt = "source" THEN S2
    ELSE LET S3 == [S2 EXCEPT
                      !.ap.source = TRUE,
                      !.ap.connections = {SourceToAnalyser, AnalyserToDestination},
                      !.ap.frequencyData = NewUint8Array(frequencyBinCount),
                      !.ap.timeDomainData = NewUint8Array(frequencyBinCount)]
    IN   startProcessing(S3, in)

\* The constructor: initializeAudioContext runs to its end (it awaits
\* nothing), then both buffers are assigned new arrays of 256.
AudioProcessorNew(S, failAt, contextState, in) ==
    LET S1 == initializeAudioContext(S, failAt, contextState, in)
    IN  [S1 EXCEPT !.ap.frequencyData = NewUint8Array(InitialBufferSize),
                   !.ap.timeDomainData = NewUint8Array(InitialBufferSize)]

PauseThenClose(S) ==
    close(IF S.ap.animationFrame # 0
          THEN [cancelAnimationFrame(S, S.ap.animationFrame) EXCEPT !.ap.animationFrame = 0]
          ELSE S)

PauseWithoutCancel(S) ==
    IF S.ap.animationFrame # 0
    THEN [S EXCEPT !.ap.animationFrame = 0]
    ELSE S

pause(S) ==
    IF S.ap.animationFrame # 0
    THEN [cancelAnimationFrame(S, S.ap.animationFrame) EXCEPT !.ap.animationFrame = 0]
    ELSE S

resume(S, in) ==
    LET S1 == IF S.ap.audioContext = "suspended"
              THEN [S EXCEPT !.ap.audioContext = "running"]
              ELSE S
    IN  IF S1.ap.animationFrame = 0 THEN startProcessing(S1, in) ELSE S1

destroy(S) ==
    LET S1 == [pause(S) EXCEPT !.ap.isProcessing = FALSE]
        S2 == IF S1.ap.source THEN disconnect(S1, "source") ELSE S1
        S3 == IF S2.ap.analyser THEN disconnect(S2, "analyser") ELSE S2
    IN  IF S3.ap.audioContext # "null" THEN close(S3) ELSE S3


\* -------------------------------------------------------------- visualizers
\* An instance keeps its pools by size: particles, waveHistory, rings,
\* shapes, bars (Spectrum's bars and smoothedBars have the same length).
\* destroyed and liveAtConstruction are history variables: whether destroy
\* was called, and how many instances were not destroyed when this one was
\* constructed.  obs.current holds the calls the current instance received.
NoSettings == [mode |-> "none"]
NoSize == [width |-> -1, height |-> -1]
NoRender == [target |-> 0]

ringCount == 6
shapeCount == 20
maxHistory == 60
maxBars == 64

\* getColorScheme(scheme), as each of the five classes declares it.
RainbowColors ==
    <<"#ff0080", "#ff8000", "#ffff00", "#80ff00", "#00ff80", "#0080ff", "#8000ff">>
BlueColors == <<"#001f3f", "#0074d9", "#39cccc", "#7fdbff">>
FireColors == <<"#ff4444", "#ff8800", "#ffaa00", "#ffdd00">>
PurpleColors == <<"#441155", "#663388", "#8855bb", "#aa77dd">>

SpectrumColorScheme(scheme) ==
    CASE scheme = "rainbow" -> RainbowColors
      [] scheme = "blue" -> BlueColors
      [] scheme = "fire" -> FireColors
      [] scheme = "purple" -> PurpleColors
      [] OTHER -> RainbowColors

ParticleColorScheme(scheme) ==
    CASE scheme = "rainbow" -> RainbowColors
      [] scheme = "blue" -> BlueColors
      [] scheme = "fire" -> FireColors
      [] scheme = "purple" -> PurpleColors
      [] OTHER -> RainbowColors

CircularColorScheme(scheme) ==
    CASE scheme = "rainbow" -> RainbowColors
      [] scheme = "blue" -> BlueColors
      [] scheme = "fire" -> FireColors
      [] scheme = "purple" -> PurpleColors
      [] OTHER -> RainbowColors

AbstractColorScheme(scheme) ==
    CASE scheme = "rainbow" -> RainbowColors
      [] scheme = "blue" -> BlueColors
      [] scheme = "fire" -> FireColors
      [] scheme = "purple" -> PurpleColors
      [] OTHER -> RainbowColors

WaveformDefaultsToBlue(scheme) ==
    CASE scheme = "rainbow" -> RainbowColors
      [] scheme = "fire" -> FireColors
      [] scheme = "purple" -> PurpleColors
      [] OTHER -> BlueColors

WaveformColorScheme(scheme) ==
    CASE scheme = "rainbow" -> RainbowColors
      [] scheme = "blue" -> BlueColors
      [] scheme = "fire" -> FireColors
      [] scheme = "purple" -> PurpleColors
      [] OTHER -> RainbowColors

getColorScheme(kind, scheme) ==
    CASE kind = "spectrum" -> SpectrumColorScheme(scheme)
      [] kind = "particle" -> ParticleColorScheme(scheme)
      [] kind = "waveform" -> WaveformColorScheme(scheme)
      [] kind = "circular" -> CircularColorScheme(scheme)
      [] kind = "abstract" -> AbstractColorScheme(scheme)

VisualizerNew(kind, live) ==
    [kind |-> kind, width |-> 0, height |-> 0,
     particles |-> 0,
     waveHistory |-> 0,
     rings |-> IF kind = "circular" THEN ringCount ELSE 0,
     shapes |-> IF kind = "abstract" THEN shapeCount ELSE 0,
     bars |-> 0,
     colorPalette |-> <<>>,
     destroyed |-> FALSE,
     liveAtConstruction |-> live]

\* configure(settings)
VisualizerConfigure(v, settings) ==
    CASE v.kind = "particle" ->
           IF v.particles # settings.particleCount
           THEN [v EXCEPT !.particles = settings.particleCount]
           ELSE v
      [] v.kind = "abstract" -> [v EXCEPT !.colorPalette = AbstractColorScheme(settings.colorScheme)]
      [] OTHER -> v

\* resize(width, height); Particle re-creates particles.length particles.
VisualizerResize(v, width, height) ==
    LET r == [v EXCEPT !.width = width, !.height = height]
    IN  CASE v.kind = "particle" -> [r EXCEPT !.particles = v.particles]
          [] v.kind = "circular" -> [r EXCEPT !.rings = ringCount]
          [] v.kind = "abstract" -> [r EXCEPT !.shapes = shapeCount]
          [] OTHER -> r

DestroyKeepsPools(v) == [v EXCEPT !.destroyed = TRUE]

\* destroy()
VisualizerDestroy(v) ==
    LET d == [v EXCEPT !.destroyed = TRUE]
    IN  CASE v.kind = "particle" -> [d EXCEPT !.particles = 0]
          [] v.kind = "waveform" -> [d EXCEPT !.waveHistory = 0]
          [] v.kind = "circular" -> [d EXCEPT !.rings = 0]
          [] v.kind = "abstract" -> [d EXCEPT !.shapes = 0]
          [] OTHER -> d

\* The pool of an instance, as section 3 of the specification names them.
PoolSize(v) ==
    CASE v.kind = "particle" -> v.particles
      [] v.kind = "waveform" -> v.waveHistory
      [] v.kind = "circular" -> v.rings
      [] v.kind = "abstract" -> v.shapes
      [] OTHER -> 0

BeatEffectUngated(audioData, settings) == audioData.beat

\* if (settings.beatDetection && audioData.beat), the same in all five
BeatEffect(audioData, settings) == settings.beatDetection /\ audioData.beat

\* The buffer whose emptiness makes render return at once.
RenderInput(v, audioData) ==
    IF v.kind = "waveform" THEN audioData.timeDomainData ELSE audioData.frequencyData

\* render(audioData, settings): the pools after the call.  Every reachable
\* frame has a length that is a multiple of 4, so barCount is an integer.
VisualizerRender(v, audioData, settings) ==
    IF Len(RenderInput(v, audioData)) = 0 THEN v
    ELSE CASE v.kind = "spectrum" ->
                [v EXCEPT !.bars = Min(maxBars, Len(audioData.frequencyData) \div 4)]
           [] v.kind = "waveform" ->
                [v EXCEPT !.waveHistory = Min(maxHistory, @ + 1)]
           [] OTHER -> v


\* ------------------------------------------- a visualizer called directly
\* The fields of an instance that render computes with, next to its pools
\* `v`.  Reals are kept exactly, as integers over a stated unit:
\*   time           in steps of 0.016 (Particle, Abstract);
\*   rotation       in additions of 0.01 + volume * 0.05, each of them
\*                  positive (Circular);
\*   smoothedBars   in units of 1 / (255 * 5 * 10^smoothings) pixels, where
\*                  smoothings counts the renders that smoothed the bars
\*                  (Spectrum; every render smooths every bar);
\*   intensity      per ring <<numerator, denominator>>, or "NaN" (Circular);
\*   pool           the particles, their fields as rationals (Particle).
\* settings.sensitivity is in tenths.
NewInstance(kind) ==
    [v |-> VisualizerNew(kind, 0),
     time |-> 0,
     rotation |-> 0,
     smoothedBars |-> <<>>,
     smoothings |-> 0,
     pool |-> <<>>,
     intensity |-> IF kind = "circular" THEN [i \in 1..ringCount |-> <<0, 1>>]
                   ELSE <<>>]

\* const barCount = Math.min(64, frequencyData.length / 4): an integer when
\* the length is a multiple of 4 or at least 256; new Array(barCount)
\* raises a RangeError otherwise.
barCountIsInteger(N) == N >= 4 * maxBars \/ N % 4 = 0
barCount(N) == Min(maxBars, N \div 4)

\* Spectrum's band i (from 0): Math.floor((i * N) / barCount / 4) and the
\* same of i + 1; 4 * barCount is min(256, N).
SpectrumBand(i, N) ==
    [startIdx |-> (i * N) \div Min(4 * maxBars, N),
     endIdx |-> ((i + 1) * N) \div Min(4 * maxBars, N)]

\* Circular's band of ring `index` (from 0) among `rings` rings:
\* Math.floor((index / rings) * N) and the same of index + 1.
CircularBand(index, rings, N) ==
    [startIdx |-> (index * N) \div rings,
     endIdx |-> ((index + 1) * N) \div rings]

\* let sum = 0; for (j = startIdx; j < endIdx; j++) sum += frequencyData[j]
BandSum(frequencyData, band) ==
    SumRange(frequencyData, band.startIdx + 1, band.endIdx)

BandWidth(band) == band.endIdx - band.startIdx

SmoothOvershoots(smoothed, bar, k) == 13 * bar * (10 ^ k) - 3 * smoothed

\* smoothedBars[i] += (bars[i] - smoothedBars[i]) * 0.3, with `smoothed` in
\* units of 1 / (1275 * 10^k) and `bar` in units of 1 / 1275; the result is
\* in units of 1 / (1275 * 10^(k + 1)).
Smooth(smoothed, bar, k) == 7 * smoothed + 3 * bar * (10 ^ k)

\* bars[i] = (average / 255) * maxHeight with maxHeight = height * 0.8, in
\* units of 1 / 1275.
BarOf(frequencyData, band, height) ==
    (BandSum(frequencyData, band) * 4 * height) \div BandWidth(band)

\* const barHeight = this.smoothedBars[i] * settings.sensitivity
BarHeight(smoothed, sensitivity) == smoothed * sensitivity

\* ring.intensity = (average / 255) * settings.sensitivity
IntensityOf(frequencyData, band, sensitivity) ==
    IF BandWidth(band) = 0 THEN "NaN"
    ELSE <<BandSum(frequencyData, band) * sensitivity, BandWidth(band) * ByteMax * 10>>

\* Rationals <<numerator, denominator>> in lowest terms, denominator > 0:
\* the reals of ParticleVisualizer, exactly.
RECURSIVE Gcd(_, _)
Gcd(a, b) == IF b = 0 THEN a ELSE Gcd(b, a % b)
Abs(n) == IF n < 0 THEN -n ELSE n
Rat(n, d) == LET g == Gcd(Abs(n), d) IN <<n \div g, d \div g>>
RatAdd(a, b) ==
    LET g == Gcd(a[2], b[2])
    IN  Rat(a[1] * (b[2] \div g) + b[1] * (a[2] \div g), (a[2] \div g) * b[2])
RatNeg(a) == <<-a[1], a[2]>>
RatSub(a, b) == RatAdd(a, RatNeg(b))
RatMul(a, b) ==
    LET g == Gcd(Abs(a[1]), b[2])
        h == Gcd(Abs(b[1]), a[2])
    IN  Rat((a[1] \div g) * (b[1] \div h), (a[2] \div h) * (b[2] \div g))
RatAbs(a) == <<Abs(a[1]), a[2]>>
RatFloor(a) == a[1] \div a[2]
\* comparisons with an integer n
RatBelow(a, n) == a[1] < n * a[2]
RatAbove(a, n) == a[1] > n * a[2]

connectionDistance == 80

\* createParticle(), with the results of its Math.random() calls in `seed`
\* (rationals in [0, 1)).  size and maxLife are left out: nothing but the
\* drawing reads them.
getRandomColor(seed) == RainbowColors[RatFloor(RatMul(seed.color, <<Len(RainbowColors), 1>>)) + 1]

createParticle(width, height, seed) ==
    [x |-> RatMul(seed.x, <<width, 1>>),
     y |-> RatMul(seed.y, <<height, 1>>),
     vx |-> RatMul(RatSub(seed.vx, <<1, 2>>), <<2, 1>>),
     vy |-> RatMul(RatSub(seed.vy, <<1, 2>>), <<2, 1>>),
     life |-> RatAdd(RatMul(seed.life, <<200, 1>>), <<100, 1>>),
     color |-> getRandomColor(seed),
     frequency |-> RatMul(seed.frequency, <<256, 1>>)]

\* initializeParticles(count)
initializeParticles(d, count, random) ==
    [d EXCEPT !.pool = [i \in 1..count |->
                           createParticle(d.v.width, d.v.height, random[i])]]

\* const freqIndex = Math.floor((particle.frequency / 256) * N)
ParticleIndex(particle, N) == RatFloor(RatMul(particle.frequency, <<N, 256>>))

\* A velocity component after the audio push and the friction:
\* v += (Math.random() - 0.5) * audioInfluence * 0.1; v *= 0.98, with
\* audioInfluence = intensity * settings.sensitivity * 2.
Pushed(v, draw, intensity, sensitivity) ==
    LET audioInfluence == RatMul(RatMul(intensity, <<sensitivity, 10>>), <<2, 1>>)
        push == RatMul(RatMul(RatSub(draw, <<1, 2>>), audioInfluence), <<1, 10>>)
    IN  RatMul(RatAdd(v, push), <<98, 100>>)

BounceKeepsPosition(at, v, limit) == [at |-> at, v |-> v]

\* Boundary bouncing of one coordinate: if (at < 0 || at > limit)
\* { v *= -0.8; at = Math.max(0, Math.min(limit, at)); }
Bounce(at, v, limit) ==
    IF RatBelow(at, 0) \/ RatAbove(at, limit)
    THEN [at |-> IF RatBelow(at, 0) THEN <<0, 1>> ELSE <<limit, 1>>,
          v |-> RatMul(v, <<-8, 10>>)]
    ELSE [at |-> at, v |-> v]

DiedBelowZero(life) == RatBelow(life, 0)

\* if (particle.life <= 0)
Died(life) == ~RatAbove(life, 0)

\* The body of this.particles.forEach in render, for one particle, with
\* the Math.random() results of this iteration in `seed`.
UpdateParticle(d, particle, seed, frequencyData, settings, colors) ==
    LET N == Len(frequencyData)
        intensity == Rat(frequencyData[ParticleIndex(particle, N) + 1], ByteMax)
        vx == Pushed(particle.vx, seed.nx, intensity, settings.sensitivity)
        vy == Pushed(particle.vy, seed.ny, intensity, settings.sensitivity)
        bx == Bounce(RatAdd(particle.x, vx), vx, d.v.width)
        by == Bounce(RatAdd(particle.y, vy), vy, d.v.height)
        life == RatSub(particle.life, <<1, 1>>)
        colorIndex == RatFloor(RatMul(intensity, <<Len(colors), 1>>))
    IN  IF Died(life)
        THEN createParticle(d.v.width, d.v.height, seed)
        ELSE [particle EXCEPT !.x = bx.at, !.vx = bx.v, !.y = by.at, !.vy = by.v,
                              !.life = life,
                              !.color = colors[Min(colorIndex, Len(colors) - 1) + 1]]

\* distance < this.connectionDistance, with distance = sqrt(dx^2 + dy^2).
\* The whole parts of dx and dy settle most pairs without squaring the
\* fractions.
Connected(a, b) ==
    LET dx == RatAbs(RatSub(a.x, b.x))
        dy == RatAbs(RatSub(a.y, b.y))
        limit == connectionDistance * connectionDistance
        fx == RatFloor(dx)
        fy == RatFloor(dy)
    IN  IF fx >= connectionDistance \/ fy >= connectionDistance THEN FALSE
        ELSE IF (fx + 1) * (fx + 1) + (fy + 1) * (fy + 1) <= limit THEN TRUE
        ELSE IF fx * fx + fy * fy >= limit THEN FALSE
        ELSE RatBelow(RatAdd(RatMul(dx, dx), RatMul(dy, dy)), limit)

ConnectionIndexOverCount(i, j, count, N) == ((i + j) * N) \div count

\* drawConnections: Math.floor(((i + j) / (particles.length * 2)) * N), for
\* particles i < j counted from 0.
ConnectionIndex(i, j, count, N) == ((i + j) * N) \div (count * 2)

\* What a call did, next to the instance it left: whether it raised,
\* whether it issued a drawing command, the bands it averaged with their
\* divisors, the bar heights it drew, the indices at which it read
\* frequencyData and the colors of the particles it drew.
Outcome(instance, threw, drew, bands, barHeights, reads, colors) ==
    [instance |-> instance, threw |-> threw, drew |-> drew,
     bands |-> bands,
     divisors |-> [i \in 1..Len(bands) |-> BandWidth(bands[i])],
     barHeights |-> barHeights,
     reads |-> reads,
     colors |-> colors]

\* The indices a band's sum reads: startIdx <= j < endIdx.
BandReads(bands) ==
    UNION {bands[i].startIdx..(bands[i].endIdx - 1) : i \in 1..Len(bands)}

radialBars == 64
colorBands == 5

SpectrumRender(d, audioData, settings) ==
    LET N == Len(audioData.frequencyData)
        kept == IF Len(d.smoothedBars) # barCount(N)
                THEN [i \in 1..barCount(N) |-> 0]
                ELSE d.smoothedBars
        smoothed == [i \in 1..barCount(N) |->
                        Smooth(kept[i],
                               BarOf(audioData.frequencyData, SpectrumBand(i - 1, N), d.v.height),
                               d.smoothings)]
        bands == [i \in 1..barCount(N) |-> SpectrumBand(i - 1, N)]
    IN  IF ~barCountIsInteger(N) THEN Outcome(d, "RangeError", FALSE, <<>>, <<>>, {}, <<>>)
        ELSE Outcome([d EXCEPT !.v = VisualizerRender(d.v, audioData, settings),
                               !.smoothedBars = smoothed,
                               !.smoothings = @ + 1],
                     "nothing", TRUE,
                     bands,
                     [i \in 1..barCount(N) |-> BarHeight(smoothed[i], settings.sensitivity)],
                     BandReads(bands), <<>>)

\* drawRadialBars: Math.floor((i / barCount) * N) for the 64 bars.
RadialBarIndex(i, N) == (i * N) \div radialBars

CircularRender(d, audioData, settings) ==
    LET N == Len(audioData.frequencyData)
        band(i) == CircularBand(i - 1, d.v.rings, N)
        bands == [i \in 1..d.v.rings |-> band(i)]
    IN  Outcome([d EXCEPT !.v = VisualizerRender(d.v, audioData, settings),
                          !.rotation = @ + 1,
                          !.intensity = [i \in 1..d.v.rings |->
                              IntensityOf(audioData.frequencyData, band(i), settings.sensitivity)]],
                "nothing", TRUE,
                bands, <<>>,
                BandReads(bands) \cup {RadialBarIndex(i, N) : i \in 0..(radialBars - 1)},
                <<>>)

\* The indices AbstractVisualizer reads: drawGenerativeBackground per
\* color, updateShapes per shape, drawColorTransitions per band, each
\* Math.floor((i / count) * N).
AbstractReads(d, N, colors) ==
    {(i * N) \div Len(colors) : i \in 0..(Len(colors) - 1)}
        \cup {(i * N) \div d.v.shapes : i \in 0..(d.v.shapes - 1)}
        \cup {(i * N) \div colorBands : i \in 0..(colorBands - 1)}

AbstractRender(d, audioData, settings) ==
    Outcome([d EXCEPT !.v = VisualizerRender(d.v, audioData, settings),
                      !.time = @ + 1],
            "nothing", TRUE, <<>>, <<>>,
            AbstractReads(d, Len(audioData.frequencyData),
                          AbstractColorScheme(settings.colorScheme)),
            <<>>)

\* ParticleVisualizer.render after the length check; random[i] holds the
\* Math.random() results of the iteration on particle i.
ParticleRender(d, audioData, settings, random) ==
    LET N == Len(audioData.frequencyData)
        count == Len(d.pool)
        colors == ParticleColorScheme(settings.colorScheme)
        pool == [i \in 1..count |->
                    UpdateParticle(d, d.pool[i], random[i], audioData.frequencyData,
                                   settings, colors)]
    IN  Outcome([d EXCEPT !.v = VisualizerRender(d.v, audioData, settings),
                          !.time = @ + 1,
                          !.pool = pool],
                "nothing", TRUE, <<>>, <<>>,
                {ParticleIndex(d.pool[i], N) : i \in 1..count}
                    \cup {ConnectionIndex(i - 1, j - 1, count, N) :
                             <<i, j>> \in {c \in (1..count) \X (1..count) :
                                              c[1] < c[2] /\ Connected(pool[c[1]], pool[c[2]])}},
                [i \in 1..count |-> pool[i].color])

WaveformRender(d, audioData, settings) ==
    Outcome([d EXCEPT !.v = VisualizerRender(d.v, audioData, settings)],
            "nothing", TRUE, <<>>, <<>>, {}, <<>>)

RenderWithoutLengthCheck(d, audioData, settings, random) ==
    CASE d.v.kind = "spectrum" -> SpectrumRender(d, audioData, settings)
      [] d.v.kind = "circular" -> CircularRender(d, audioData, settings)
      [] d.v.kind = "waveform" -> WaveformRender(d, audioData, settings)
      [] d.v.kind = "particle" -> ParticleRender(d, audioData, settings, random)
      [] d.v.kind = "abstract" -> AbstractRender(d, audioData, settings)

\* render(audioData, settings) of each class, with all it computes; random
\* holds the results of the Math.random() calls it makes.
render(d, audioData, settings, random) ==
    IF Len(RenderInput(d.v, audioData)) = 0
    THEN Outcome(d, "nothing", FALSE, <<>>, <<>>, {}, <<>>)
    ELSE CASE d.v.kind = "spectrum" -> SpectrumRender(d, audioData, settings)
           [] d.v.kind = "circular" -> CircularRender(d, audioData, settings)
           [] d.v.kind = "waveform" -> WaveformRender(d, audioData, settings)
           [] d.v.kind = "particle" -> ParticleRender(d, audioData, settings, random)
           [] d.v.kind = "abstract" -> AbstractRender(d, audioData, settings)

\* configure(settings); Particle re-creates its pool when the count differs.
configure(d, settings, random) ==
    LET c == [d EXCEPT !.v = VisualizerConfigure(d.v, settings)]
    IN  IF d.v.kind = "particle" /\ Len(d.pool) # settings.particleCount
        THEN initializeParticles(c, settings.particleCount, random)
        ELSE c

\* resize(width, height); Circular's initializeRings zeroes the
\* intensities, Particle re-creates particles.length particles.
resize(d, width, height, random) ==
    LET r == [d EXCEPT !.v = VisualizerResize(d.v, width, height),
                       !.intensity = IF d.v.kind = "circular"
                                     THEN [i \in 1..ringCount |-> <<0, 1>>]
                                     ELSE @]
    IN  IF d.v.kind = "particle"
        THEN initializeParticles(r, Len(d.pool), random)
        ELSE r

NoRandom == <<>>

NoCall == [op |-> "none"]
NoDirect == [instance |-> NewInstance("spectrum"), call |-> NoCall, calls |-> 0]


\* --------------------------------------------------------- VisualizerCanvas
OnCurrent(S, F(_)) ==
    IF S.eng.visualizerRef = 0
    THEN S
    ELSE [S EXCEPT !.visualizers[S.eng.visualizerRef] = F(@)]

\* The calls on the current instance, each recorded in obs.current.
configureCurrent(S, settings) ==
    IF S.eng.visualizerRef = 0 THEN S
    ELSE [OnCurrent(S, LAMBDA v : VisualizerConfigure(v, settings))
            EXCEPT !.obs.current.configuredWith = settings]

resizeCurrent(S, width, height) ==
    IF S.eng.visualizerRef = 0 THEN S
    ELSE [OnCurrent(S, LAMBDA v : VisualizerResize(v, width, height))
            EXCEPT !.obs.current.resizedTo = [width |-> width, height |-> height]]

NotCalled == [configuredWith |-> NoSettings, resizedTo |-> NoSize, rendered |-> FALSE]

LiveInstances(S) ==
    Cardinality({i \in 1..Len(S.visualizers) : ~S.visualizers[i].destroyed})

\* new XVisualizer(canvas, ctx), assigned to visualizerRef.current.
construct(S, kind) ==
    LET new == VisualizerNew(kind, LiveInstances(S))
        address == IF Len(S.visualizers) < 2
                   THEN Len(S.visualizers) + 1
                   ELSE 3 - S.eng.visualizerRef
    IN  [S EXCEPT !.visualizers = IF address > Len(@)
                                  THEN Append(@, new)
                                  ELSE [@ EXCEPT ![address] = new],
                  !.eng.visualizerRef = address,
                  !.obs.current = NotCalled]

InitializeWithoutConfigure(S) ==
    construct(OnCurrent(S, VisualizerDestroy), S.app.settings.mode)

\* initializeVisualizer: destroy the previous instance, construct the one
\* for settings.mode, configure it.
initializeVisualizer(S) ==
    LET S1 == OnCurrent(S, VisualizerDestroy)
        S2 == construct(S1, S.app.settings.mode)
    IN  configureCurrent(S2, S.app.settings)

\* resizeCanvas: the canvas takes the container's size times the device
\* pixel ratio, the visualizer the container's size.
resizeCanvas(S) ==
    LET rect == S.eng.rect
        S1 == [S EXCEPT !.eng.canvas = [width |-> rect.width * S.eng.dpr,
                                        height |-> rect.height * S.eng.dpr]]
    IN  resizeCurrent(S1, rect.width, rect.height)

requestAnimate(S) ==
    LET id == FreshId(S, S.eng.animationFrameRef)
    IN  [S EXCEPT !.raf = @ \cup {[id |-> id, cb |-> "animate"]},
                  !.eng.animationFrameRef = id]

\* visualizerRef.current.render(audioData, settings), with what the call
\* found recorded in obs.render.
renderCurrent(S) ==
    IF S.eng.visualizerRef = 0 THEN S
    ELSE LET id == S.eng.visualizerRef
             v == S.visualizers[id]
             call == [target |-> id,
                      kind |-> v.kind,
                      particles |-> v.particles,
                      pool |-> PoolSize(v),
                      destroyed |-> v.destroyed,
                      first |-> ~S.obs.current.rendered,
                      configuredWith |-> S.obs.current.configuredWith,
                      resizedTo |-> S.obs.current.resizedTo,
                      settings |-> S.app.settings,
                      rect |-> S.eng.rect,
                      isPlaying |-> S.app.isPlaying,
                      beat |-> S.app.audioData.beat,
                      beatEffect |-> BeatEffect(S.app.audioData, S.app.settings),
                      colors |-> getColorScheme(v.kind, S.app.settings.colorScheme)]
             after == VisualizerRender(v, S.app.audioData, S.app.settings)
         IN  [S EXCEPT !.visualizers[id] = after,
                       !.obs.current.rendered = TRUE,
                       !.obs.render = call]

AnimateAlways(S) == requestAnimate(renderCurrent(S))

\* animate: while not playing the callback only re-arms itself.
animate(S) ==
    IF ~S.app.isPlaying
    THEN requestAnimate(S)
    ELSE requestAnimate(renderCurrent(S))

\* The cleanup of the setup effect (resize listener, frame, visualizer).
setupCleanup(S) ==
    LET S1 == IF S.eng.animationFrameRef # 0
              THEN cancelAnimationFrame(S, S.eng.animationFrameRef)
              ELSE S
    IN  OnCurrent(S1, VisualizerDestroy)

\* The effects React runs after a render of VisualizerCanvas, cleanups
\* first, then the bodies in declaration order: [initializeVisualizer]
\* when settings.mode changed, [resizeCanvas, animate] when audioData,
\* settings or isPlaying changed, [settings] when settings changed.
runEffects(S, modeChanged, animateChanged, settingsChanged) ==
    LET S1 == IF animateChanged THEN setupCleanup(S) ELSE S
        S2 == IF modeChanged THEN initializeVisualizer(S1) ELSE S1
        S3 == IF animateChanged THEN animate(resizeCanvas(S2)) ELSE S2
    IN  IF settingsChanged THEN configureCurrent(S3, S.app.settings) ELSE S3

\* ---------------------------------------------------------------------- App
Modes == {"spectrum", "particle", "waveform", "circular", "abstract"}

InitialSettings ==
    [mode |-> "spectrum", beatDetection |-> TRUE, particleCount |-> 100,
     colorScheme |-> "rainbow", sensitivity |-> 8]

InitialAudioData ==
    [frequencyData |-> NewUint8Array(InitialBufferSize),
     timeDomainData |-> NewUint8Array(InitialBufferSize),
     volume |-> 0, beat |-> FALSE]

\* Every handler starts with the observations of the previous step cleared.
Begin(S, op) ==
    [S EXCEPT !.obs.render = NoRender, !.obs.delivered = FALSE,
              !.obs.errors = {},
              !.obs.frame = (op = "animate")]

\* handlePlayPause; a frame that resume() delivers is part of the same
\* React update as the new isPlaying.
handlePlayPause(S, in) ==
    LET S0 == Begin(S, "handlePlayPause")
        S1 == IF S0.app.isPlaying
              THEN [pause(S0) EXCEPT !.obs.call = "pause", !.obs.paused = TRUE]
              ELSE [resume(S0, in) EXCEPT !.obs.call = "resume"]
        S2 == [S1 EXCEPT !.app.isPlaying = ~S.app.isPlaying]
    IN  runEffects(S2, FALSE, TRUE, FALSE)

\* handleStop; setIsPlaying(false) re-renders only when it was true.
handleStop(S) ==
    LET S0 == Begin(S, "handleStop")
        S1 == [pause(S0) EXCEPT !.obs.call = "pause", !.obs.paused = TRUE,
                                !.app.isPlaying = FALSE]
    IN  runEffects(S1, FALSE, S.app.isPlaying, FALSE)

\* updateSettings(patch): always a new settings object.
updateSettings(S, patch) ==
    LET S0 == Begin(S, "updateSettings")
        merged == [k \in DOMAIN S.app.settings |->
                      IF k \in DOMAIN patch THEN patch[k] ELSE S.app.settings[k]]
        S1 == [S0 EXCEPT !.app.settings = merged]
    IN  runEffects(S1, merged.mode # S.app.settings.mode, TRUE, TRUE)

\* The window's resize event.
handleResize(S, width, height) ==
    LET S0 == Begin(S, "handleResize")
    IN  resizeCanvas([S0 EXCEPT !.eng.rect = [width |-> width, height |-> height]])

\* A caller of the extractor's public destroy().
callDestroy(S) ==
    LET S0 == Begin(S, "destroy")
    IN  [destroy(S0) EXCEPT !.obs.call = "destroy", !.obs.destroys = @ + 1]

\* A display frame running the pending processAudioData callback r.
extractionFrame(S, r, in) ==
    LET S0 == Begin(S, "processAudioData")
        S1 == processAudioData([S0 EXCEPT !.raf = @ \ {r}], in)
    IN  runEffects(S1, FALSE, S1.obs.delivered, FALSE)

\* A display frame running the pending animate callback r.
animationFrame(S, r) ==
    LET S0 == Begin(S, "animate")
    IN  animate([S0 EXCEPT !.raf = @ \ {r}])

\* Mounting App: the effects of VisualizerCanvas run first, then App's
\* effect constructs the AudioProcessor and registers setAudioData.
Unmounted(rect, dpr, t) ==
    [ap |-> [audioContext |-> "null", analyser |-> FALSE, source |-> FALSE,
             frequencyData |-> <<>>, timeDomainData |-> <<>>,
             animationFrame |-> 0, isProcessing |-> FALSE,
             bassHistory |-> <<>>, lastBeatTime |-> 0, onDataUpdate |-> FALSE,
             connections |-> {}],
     raf |-> {},
     app |-> [isPlaying |-> FALSE, audioData |-> InitialAudioData,
              settings |-> InitialSettings],
     eng |-> [visualizerRef |-> 0, animationFrameRef |-> 0, rect |-> rect,
              canvas |-> [width |-> 0, height |-> 0], dpr |-> dpr],
     visualizers |-> <<>>,
     now |-> t,
     obs |-> [call |-> "none", paused |-> FALSE,
              failAt |-> "none", current |-> NotCalled, render |-> NoRender,
              frame |-> FALSE, delivered |-> FALSE,
              frameBeatDetection |-> TRUE,
              tick |-> [beat |-> FALSE, at |-> 0, lastBeatTime |-> 0],
              beatLog |-> <<>>, bassLog |-> <<>>, ticks |-> 0,
              destroys |-> 0, errors |-> {},
              frameArrays |-> [frequencyData |-> "new", timeDomainData |-> "new"],
              superseded |-> [was |-> InitialAudioData, is |-> InitialAudioData]]]

Mount(rect, dpr, failAt, contextState, in) ==
    LET S0 == Unmounted(rect, dpr, in.now)
        S1 == runEffects(S0, TRUE, TRUE, TRUE)
        S2 == AudioProcessorNew(S1, failAt, contextState, in)
    IN  [S2 EXCEPT !.ap.onDataUpdate = TRUE, !.obs.failAt = failAt]


\* ------------------------------------------------------------ environment
ClockStart == 10 * minBeatInterval   \* Date.now() at mount: far from 0
QuietBass == 20
BassLevels == {QuietBass, ByteMax}
SlowFrames == {minBeatInterval + 100}
FrameIntervals == {minBeatInterval \div 2, minBeatInterval, minBeatInterval + 100}
SmallRect == [width |-> 4, height |-> 3]
Rects == {[width |-> 0, height |-> 0], SmallRect}
PixelRatios == {1, 2}
FailSteps == {"none", "context", "analyser", "source"}
ContextStates == {"suspended", "running"}
ParticleCounts == {20, 100}
KnownSchemes == {"rainbow", "blue", "fire", "purple"}
ColorSchemeIds == KnownSchemes \cup {"nonexistent", ""}

Input(bass, t) ==
    [spectrum |-> SpectrumOf(bass, 0), wave |-> WaveOf(0, ByteMax), now |-> t]

IsState(S) ==
    /\ ap = S.ap
    /\ raf = S.raf
    /\ app = S.app
    /\ eng = S.eng
    /\ visualizers = S.visualizers
    /\ now = S.now
    /\ obs = S.obs

\* A prescribed signal: `warm` ticks with the bass bins at `base`, then
\* `sustain` ticks with the bass bins at `step`.
NoSignal == [warm |-> 0, base |-> 0, step |-> 0, sustain |-> 0]
Baselines == {10, 100, 190}
StepSignals ==
    {[warm |-> historyCapacity, base |-> b, step |-> (13 * b) \div 10,
      sustain |-> MaxSustained] : b \in Baselines}
BurstSignal ==
    [warm |-> BurstWarmTicks, base |-> 0, step |-> ByteMax, sustain |-> BurstTicks]
DisplayFrames == {16, 17}   \* ms between display frames at 60 Hz

InitWith(rects, ratios, fails, contexts) ==
    /\ signal = NoSignal
    /\ direct = NoDirect
    /\ \E rect \in rects, dpr \in ratios, failAt \in fails, contextState \in contexts :
           IsState(Mount(rect, dpr, failAt, contextState, Input(0, ClockStart)))

PlayPause(levels, intervals) ==
    \E bass \in levels, dt \in intervals :
        Becomes(handlePlayPause(Sys, Input(bass, now + dt)))

Stop == Becomes(handleStop(Sys))

SetMode ==
    \E mode \in Modes \ {app.settings.mode} :
        Becomes(updateSettings(Sys, [mode |-> mode]))

SetBeatDetection ==
    Becomes(updateSettings(Sys, [beatDetection |-> ~app.settings.beatDetection]))

SetParticleCount ==
    \E n \in ParticleCounts \ {app.settings.particleCount} :
        Becomes(updateSettings(Sys, [particleCount |-> n]))

SetColorScheme ==
    \E scheme \in ColorSchemeIds \ {app.settings.colorScheme} :
        Becomes(updateSettings(Sys, [colorScheme |-> scheme]))

SetTheme == Becomes(updateSettings(Sys, [theme |-> "light"]))

WindowResize ==
    \E rect \in Rects : Becomes(handleResize(Sys, rect.width, rect.height))

Destroy ==
    /\ obs.destroys < MaxDestroys
    /\ Becomes(callDestroy(Sys))

\* A tick of the extractor while the prescribed signal plays.
SignalFrame(intervals) ==
    /\ obs.ticks < signal.warm + signal.sustain
    /\ \E r \in raf, dt \in intervals :
           /\ r.cb = "processAudioData"
           /\ Becomes(extractionFrame(Sys, r,
                  Input(IF obs.ticks < signal.warm THEN signal.base ELSE signal.step,
                        now + dt)))

ExtractionFrame(levels, intervals, maxTicks) ==
    /\ obs.ticks < maxTicks
    /\ \E r \in raf, bass \in levels, dt \in intervals :
           /\ r.cb = "processAudioData"
           /\ Becomes(extractionFrame(Sys, r, Input(bass, now + dt)))

AnimationFrame ==
    /\ eng.visualizerRef # 0 =>
           visualizers[eng.visualizerRef].waveHistory < MaxWaveFrames
    /\ \E r \in raf :
           /\ r.cb = "animate"
           /\ Becomes(animationFrame(Sys, r))

\* The engine: playback, mode and settings changes, resizes, and both
\* frame callbacks, on an extractor that initialized.
InitEngine == InitWith(Rects, {2}, {"none"}, {"running"})

NextEngine ==
    \/ PlayPause({QuietBass}, SlowFrames)
    \/ SetMode
    \/ SetParticleCount
    \/ SetTheme
    \/ WindowResize
    \/ ExtractionFrame({QuietBass}, SlowFrames, MaxEngineTicks)
    \/ AnimationFrame

SpecEngine == InitEngine /\ [][NextEngine]_vars

\* Beat detection switched on and off while frames are extracted and drawn.
InitGate == InitWith({SmallRect}, {2}, {"none"}, {"running"})

NextGate ==
    \/ PlayPause(BassLevels, SlowFrames)
    \/ SetBeatDetection
    \/ ExtractionFrame(BassLevels, SlowFrames, MaxTicks)
    \/ AnimationFrame

SpecGate == InitGate /\ [][NextGate]_vars

\* The extractor's life cycle, for every outcome of its initialization.
InitExtractor == InitWith({SmallRect}, PixelRatios, FailSteps, ContextStates)

NextExtractor ==
    \/ PlayPause(BassLevels, SlowFrames)
    \/ Stop
    \/ ExtractionFrame(BassLevels, SlowFrames, MaxTicks)
    \/ AnimationFrame

SpecExtractor == InitExtractor /\ [][NextExtractor]_vars

\* The beat detector on a running extractor, for every bass level and
\* frame interval.
InitBeat == InitWith({SmallRect}, {1}, {"none"}, {"running"})

NextBeat == ExtractionFrame(BassLevels, FrameIntervals, MaxBeatTicks)

SpecBeat == InitBeat /\ [][NextBeat]_vars

\* The beat detector at 60 Hz on a step from a flat baseline to 1.3 times
\* the baseline.
InitStep ==
    /\ signal \in StepSignals
    /\ direct = NoDirect
    /\ IsState(Mount(SmallRect, 1, "none", "running", Input(0, ClockStart)))

NextStep == SignalFrame(DisplayFrames)

SpecStep == InitStep /\ [][NextStep]_vars

\* The beat detector at 60 Hz on a full-scale burst after silence.
InitBurst ==
    /\ signal = BurstSignal
    /\ direct = NoDirect
    /\ IsState(Mount(SmallRect, 1, "none", "running", Input(0, ClockStart)))

NextBurst == SignalFrame(DisplayFrames)

SpecBurst == InitBurst /\ [][NextBurst]_vars

\* A visualizer of each class called directly: render with frames of every
\* length up to MaxFrameLength, both buffers or one of them empty, and
\* resize.
FrameLengths == 0..MaxFrameLength
FrameLevels == {0, ByteMax}
Sensitivities == {4, 8}
DirectFrame(fN, tN, level) ==
    [frequencyData |-> [i \in 1..fN |-> level],
     timeDomainData |-> [i \in 1..tN |-> ByteCentre],
     volume |-> 0, beat |-> FALSE]

RenderCall(lengths) ==
    /\ direct.calls < MaxCalls
    /\ \E fN \in lengths, tN \in {0, MaxFrameLength}, level \in FrameLevels,
          sensitivity \in Sensitivities :
           LET audioData == DirectFrame(fN, tN, level)
               settings == [InitialSettings EXCEPT !.mode = direct.instance.v.kind,
                                                   !.sensitivity = sensitivity]
               out == render(direct.instance, audioData, settings, NoRandom)
           IN  direct' = [instance |-> out.instance,
                          call |-> [op |-> "render", before |-> direct.instance,
                                    audioData |-> audioData, settings |-> settings,
                                    random |-> NoRandom,
                                    reads |-> out.reads, colors |-> out.colors,
                                    threw |-> out.threw, drew |-> out.drew,
                                    bands |-> out.bands,
                                    divisors |-> out.divisors,
                                    barHeights |-> out.barHeights],
                          calls |-> direct.calls + 1]
    /\ UNCHANGED <<ap, raf, app, eng, visualizers, now, signal, obs>>

ResizeCall ==
    /\ \E rect \in Rects :
           direct' = [direct EXCEPT
                          !.instance = resize(direct.instance, rect.width, rect.height,
                                              NoRandom),
                          !.call = [op |-> "resize", before |-> direct.instance]]
    /\ UNCHANGED <<ap, raf, app, eng, visualizers, now, signal, obs>>

InitDirect ==
    /\ signal = NoSignal
    /\ direct \in {[instance |-> NewInstance(kind), call |-> NoCall, calls |-> 0] :
                       kind \in Modes}
    /\ IsState(Mount(SmallRect, 1, "none", "running", Input(0, ClockStart)))

NextDirect == RenderCall(FrameLengths) \/ ResizeCall

SpecDirect == InitDirect /\ [][NextDirect]_vars

\* The Particle pool, and the reads of frequencyData: the visualizers
\* that read it by computed indices, called directly with the results of
\* Math.random() chosen from a few runs.
Seed(x, y, vx, vy, life, color, frequency, nx, ny) ==
    [x |-> x, y |-> y, vx |-> vx, vy |-> vy, life |-> life, color |-> color,
     frequency |-> frequency, nx |-> nx, ny |-> ny]
Half == <<1, 2>>
SeedOrigin == Seed(<<0, 1>>, <<0, 1>>, <<0, 1>>, Half, <<0, 1>>, <<0, 1>>, <<0, 1>>,
                   Half, Half)
SeedCorner == Seed(<<7, 8>>, <<7, 8>>, <<9, 10>>, <<9, 10>>, Half, <<6, 7>>,
                   <<255, 256>>, <<3, 4>>, <<0, 1>>)
SeedMiddle == Seed(<<3, 5>>, Half, Half, <<1, 10>>, <<199, 200>>, <<3, 7>>, Half,
                   <<0, 1>>, <<3, 4>>)
SeedRuns == {<<SeedOrigin, SeedCorner, SeedMiddle>>,
             <<SeedCorner, SeedMiddle, SeedOrigin>>}

PoolKinds == {"particle", "circular", "abstract"}
PoolSizes == {0, 2, 3}
PoolLengths == {1, 3, MaxFrameLength}
WideRect == [width |-> 100, height |-> 3]
PoolRects == Rects \cup {WideRect}

DirectCall(op, out, audioData, settings, random) ==
    [op |-> op, before |-> direct.instance,
     audioData |-> audioData, settings |-> settings, random |-> random,
     reads |-> out.reads, colors |-> out.colors,
     threw |-> out.threw, drew |-> out.drew, bands |-> out.bands,
     divisors |-> out.divisors, barHeights |-> out.barHeights]

SeededRender(limit, lengths, levels, schemes, runs) ==
    /\ direct.calls < limit
    /\ \E fN \in lengths, level \in levels, scheme \in schemes, random \in runs :
           LET audioData == DirectFrame(fN, 0, level)
               settings == [InitialSettings EXCEPT !.mode = direct.instance.v.kind,
                                                   !.colorScheme = scheme,
                                                   !.particleCount = Len(direct.instance.pool)]
               out == render(direct.instance, audioData, settings, random)
           IN  direct' = [instance |-> out.instance,
                          call |-> DirectCall("render", out, audioData, settings, random),
                          calls |-> direct.calls + 1]
    /\ UNCHANGED <<ap, raf, app, eng, visualizers, now, signal, obs>>

SeededResize ==
    /\ \E rect \in PoolRects, random \in SeedRuns :
           direct' = [direct EXCEPT
                          !.instance = resize(direct.instance, rect.width, rect.height,
                                              random),
                          !.call = [op |-> "resize", before |-> direct.instance]]
    /\ UNCHANGED <<ap, raf, app, eng, visualizers, now, signal, obs>>

ConfigureCall ==
    /\ direct.instance.v.kind = "particle"
    /\ \E count \in PoolSizes, random \in SeedRuns :
           direct' = [direct EXCEPT
                          !.instance = configure(direct.instance,
                                                 [InitialSettings EXCEPT
                                                      !.mode = "particle",
                                                      !.particleCount = count],
                                                 random),
                          !.call = [op |-> "configure", before |-> direct.instance]]
    /\ UNCHANGED <<ap, raf, app, eng, visualizers, now, signal, obs>>

InitPool ==
    /\ signal = NoSignal
    /\ direct \in {[instance |-> NewInstance(kind), call |-> NoCall, calls |-> 0] :
                       kind \in PoolKinds}
    /\ IsState(Mount(SmallRect, 1, "none", "running", Input(0, ClockStart)))

NextPool ==
    \/ SeededRender(MaxCalls, PoolLengths, FrameLevels, {"rainbow"}, SeedRuns)
    \/ SeededResize
    \/ ConfigureCall

SpecPool == InitPool /\ [][NextPool]_vars

\* A pool of two particles at rest, rendered until their lives run out.
StillPool ==
    configure(resize(NewInstance("particle"), SmallRect.width, SmallRect.height, <<>>),
              [InitialSettings EXCEPT !.mode = "particle", !.particleCount = 2],
              <<[SeedOrigin EXCEPT !.vx = Half], [SeedOrigin EXCEPT !.vx = Half, !.life = <<1, 200>>]>>)

InitLife ==
    /\ signal = NoSignal
    /\ direct = [instance |-> StillPool, call |-> NoCall, calls |-> 0]
    /\ IsState(Mount(SmallRect, 1, "none", "running", Input(0, ClockStart)))

NextLife ==
    SeededRender(MaxLifeCalls, {MaxFrameLength}, FrameLevels, {"rainbow", "blue"},
                 {[i \in 1..2 |-> [SeedOrigin EXCEPT !.vx = Half]]})

SpecLife == InitLife /\ [][NextLife]_vars

\* The same with frames of the lengths the analyser's buffers have.
AnalyserLengths == {frequencyBinCount, InitialBufferSize}

NextBands == RenderCall(AnalyserLengths) \/ ResizeCall

SpecBands == InitDirect /\ [][NextBands]_vars

\* The volume: extraction ticks on waves that alternate between two levels.
WaveLevels == {0, 1, 64, 127, ByteCentre, 129, 254, ByteMax}
InputWave(lo, hi, t) ==
    [spectrum |-> SilentSpectrum, wave |-> WaveOf(lo, hi), now |-> t]

VolumeFrame ==
    /\ obs.ticks < MaxVolumeTicks
    /\ \E r \in raf, lo \in WaveLevels, hi \in WaveLevels, dt \in SlowFrames :
           /\ r.cb = "processAudioData"
           /\ Becomes(extractionFrame(Sys, r, InputWave(lo, hi, now + dt)))

InitVolume == InitWith({SmallRect}, {1}, {"none"}, {"running"})

NextVolume == VolumeFrame

SpecVolume == InitVolume /\ [][NextVolume]_vars

\* The frames: extraction ticks on changing spectra and display frames that
\* render, in every mode.
InitSnapshot == InitWith({SmallRect}, {1}, {"none"}, {"running"})

NextSnapshot ==
    \/ PlayPause(BassLevels, SlowFrames)
    \/ SetMode
    \/ ExtractionFrame(BassLevels, SlowFrames, MaxTicks)
    \/ AnimationFrame

SpecSnapshot == InitSnapshot /\ [][NextSnapshot]_vars

\* The bass history past its capacity: ticks on a signal whose bass level
\* differs from each tick to the next.
RampLevel(k) == (k * RampStride) % (ByteMax + 1)

RampFrame ==
    /\ obs.ticks < MaxRampTicks
    /\ \E r \in raf, dt \in SlowFrames :
           /\ r.cb = "processAudioData"
           /\ Becomes(extractionFrame(Sys, r, Input(RampLevel(obs.ticks), now + dt)))

InitRamp == InitWith(Rects, PixelRatios, {"none"}, {"running"})

NextRamp == RampFrame

SpecRamp == InitRamp /\ [][NextRamp]_vars

\* The first ticks of a fresh detector, from silence to full scale.
FirstLevels == {0, 1, QuietBass, ByteMax}

InitFirst == InitWith({SmallRect}, {1}, {"none"}, ContextStates)

NextFirst == ExtractionFrame(FirstLevels, FrameIntervals, MaxTicks)

SpecFirst == InitFirst /\ [][NextFirst]_vars

\* The palettes: every mode rendered under every colour scheme id.
InitPalette == InitWith({SmallRect}, {2}, {"none"}, {"running"})

NextPalette ==
    \/ PlayPause({QuietBass}, SlowFrames)
    \/ SetMode
    \/ SetColorScheme
    \/ AnimationFrame

SpecPalette == InitPalette /\ [][NextPalette]_vars

\* The analysis tap: pause, resume and destroy called in any order, for
\* every outcome of the initialization.
InitTap == InitWith({SmallRect}, {1}, FailSteps, ContextStates)

NextTap ==
    \/ PlayPause(BassLevels, SlowFrames)
    \/ Stop
    \/ Destroy
    \/ ExtractionFrame(BassLevels, SlowFrames, MaxTicks)

SpecTap == InitTap /\ [][NextTap]_vars

\* -------------------------------------------------------------- properties
Pending(cb) == \E r \in raf : r.cb = cb

\* C1: on an extractor that initialized and has a consumer, after a pause()
\* followed by a resume() the periodic tick runs again: a processAudioData
\* callback is pending, so a frame is delivered on a later display frame.
C1_ResumeRestartsTick ==
    (obs.failAt = "none" /\ ap.onDataUpdate /\ obs.paused /\ obs.call = "resume")
        => Pending("processAudioData")

AllBytes(array, value) == \A i \in 1..Len(array) : array[i] = value

ZeroValued(frame) ==
    /\ AllBytes(frame.frequencyData, 0)
    /\ AllBytes(frame.timeDomainData, 0)
    /\ frame.volume = 0
    /\ ~frame.beat

\* C9: when initialization failed at any step, the extractor stays inert
\* (no step delivers a frame) and the consumer's frame is zero-valued,
\* whatever pause and resume calls follow.
C9_FailedInitStaysInert ==
    obs.failAt # "none" => (~obs.delivered /\ ZeroValued(app.audioData))

\* C10: every frame delivered after a successful initialization has
\* frequencyData and timeDomainData of the same length N, the analyser's
\* frequencyBinCount (128 for fftSize 256).
C10_FrameLengthIsBinCount ==
    (obs.failAt = "none" /\ obs.delivered) =>
        /\ Len(app.audioData.frequencyData) = frequencyBinCount
        /\ Len(app.audioData.timeDomainData) = frequencyBinCount

\* C2: any two ticks on which detectBeat returned true are at least
\* minBeatInterval (200 ms) apart in tick time, whatever the bass input.
C2_BeatsAtLeastMinIntervalApart ==
    \A i, j \in 1..Len(obs.beatLog) :
        i < j => obs.beatLog[j] - obs.beatLog[i] >= minBeatInterval

C2_TwoBeatsFired == Len(obs.beatLog) >= 2

\* bassAverage > rollingMean * 1.2 on the frame just delivered, with the
\* history as it is after the push (both means scaled to integers)
BassAboveRollingMean ==
    LET bassEnd == Min(bassBins, Len(app.audioData.frequencyData))
        bassSum == SumTo(app.audioData.frequencyData, bassEnd)
    IN  bassSum * Len(ap.bassHistory) * beatThresholdDen
            > SumSeq(ap.bassHistory) * beatThresholdNum

\* C3: a tick returns beat = true if and only if bassAverage is above
\* rollingMean * 1.2 and the time since lastBeatTime is >= 200 ms (a tick
\* exactly 200 ms after the last beat fires); lastBeatTime becomes the tick
\* time exactly on the ticks that fire.
C3_FiresIffAboveAndIntervalReached ==
    obs.delivered =>
        /\ obs.tick.beat <=>
              (BassAboveRollingMean
                  /\ obs.tick.at - obs.tick.lastBeatTime >= minBeatInterval)
        /\ ap.lastBeatTime =
              IF obs.tick.beat THEN obs.tick.at ELSE obs.tick.lastBeatTime

Rendered == obs.render # NoRender

\* The detector's history has one entry per tick (at most 43 are kept),
\* the last one being the bass level of the frame just delivered.
HistoryAdvanced ==
    /\ Len(ap.bassHistory) = Min(obs.ticks, historyCapacity)
    /\ obs.delivered =>
          ap.bassHistory[Len(ap.bassHistory)] = bassSumOf(app.audioData.frequencyData)

\* C4 as stated: a frame produced while settings.beatDetection is false has
\* beat = false, and the bass history still receives one entry per tick.
C4_DisabledFramesCarryNoBeat ==
    /\ (obs.delivered /\ ~obs.frameBeatDetection) => ~app.audioData.beat
    /\ HistoryAdvanced

\* C4: while settings.beatDetection is false the frames still carry the
\* detector's result, but no render draws a beat effect from them (a render
\* acts on beat only if settings.beatDetection is true); the bass history
\* receives one entry per tick.
C4_DisabledBeatIsNotDrawn ==
    /\ Rendered => (obs.render.beatEffect <=>
                        (obs.render.settings.beatDetection /\ obs.render.beat))
    /\ HistoryAdvanced

C4_BeatFrameWhileDisabled ==
    /\ obs.delivered /\ ~obs.frameBeatDetection /\ app.audioData.beat
    /\ Rendered /\ obs.render.beat /\ ~obs.render.settings.beatDetection
    /\ ~obs.render.beatEffect

\* C5: every render of a particle visualizer (each follows the configure
\* and resize calls of the engine's lifecycle) finds exactly
\* settings.particleCount particles in the pool.
C5_ParticlePoolMatchesCount ==
    (Rendered /\ obs.render.kind = "particle") =>
        obs.render.particles = obs.render.settings.particleCount

\* C6: a visualizer is constructed only when no other instance is live
\* (the active one was destroyed first), and at its first render it has
\* received configure with the current settings and resize with the
\* current container dimensions.
C6_DestroyedBeforeConfiguredResizedAfter ==
    /\ \A a \in 1..Len(visualizers) : visualizers[a].liveAtConstruction = 0
    /\ (Rendered /\ obs.render.first) =>
          /\ obs.render.configuredWith = obs.render.settings
          /\ obs.render.resizedTo = obs.render.rect

C6_FirstRenderAfterModeChange ==
    /\ Rendered /\ obs.render.first
    /\ Len(visualizers) = 2
    /\ obs.render.kind = app.settings.mode
    /\ obs.render.kind # visualizers[3 - eng.visualizerRef].kind

\* C7: every render call goes to the one current instance, and the
\* instance a mode switch replaced is destroyed with an empty pool.
C7_OnlyCurrentRenderedOthersReleased ==
    /\ Rendered => obs.render.target = eng.visualizerRef
    /\ \A a \in 1..Len(visualizers) :
          a # eng.visualizerRef =>
              visualizers[a].destroyed /\ PoolSize(visualizers[a]) = 0

C7_WaveformRenderedAfterParticle ==
    /\ Rendered /\ obs.render.kind = "waveform"
    /\ Len(visualizers) = 2
    /\ visualizers[3 - eng.visualizerRef].kind = "particle"

ConnectionsMade ==
    IF obs.failAt = "none" THEN {SourceToAnalyser, AnalyserToDestination} ELSE {}

\* C11: as long as destroy() was not called, whatever pause() and resume()
\* calls were made, the audio context is not closed and the connections of
\* the source and the analyser are the ones initialization made; once
\* destroy() was called the context is closed and the connections are gone.
C11_OnlyDestroyReleasesTap ==
    /\ obs.destroys = 0 =>
          /\ ap.audioContext # "closed"
          /\ ap.connections = ConnectionsMade
    /\ obs.destroys > 0 =>
          /\ ap.audioContext \in {"closed", "null"}
          /\ ap.connections = {}

C11_ResumedWithTapIntact ==
    /\ obs.paused /\ obs.call = "resume" /\ obs.destroys = 0
    /\ obs.failAt = "none"
    /\ ap.audioContext = "running"
    /\ ap.connections = {SourceToAnalyser, AnalyserToDestination}

\* C12: a destroy() that directly follows a destroy() raises no error (no
\* exception and no rejected promise left unhandled) and leaves every field
\* of the extractor and the pending callbacks as the first call left them.
C12_DestroyIdempotent ==
    [][(obs.call = "destroy" /\ obs'.destroys > obs.destroys) =>
          (ap' = ap /\ raf' = raf /\ obs'.errors = {})]_vars

\* C13: on a step signal (43 ticks at a flat baseline b, then the bass at
\* 1.3 * b sustained, ticks 16 or 17 ms apart) detectBeat returns true on
\* the first elevated tick and on no other tick.
C13_StepFiresOnce ==
    signal \in StepSignals =>
        /\ obs.ticks <= signal.warm => obs.beatLog = <<>>
        /\ obs.ticks = signal.warm + 1 => obs.tick.beat
        /\ obs.ticks > signal.warm => Len(obs.beatLog) = 1

C13_SustainedSectionPlayed ==
    /\ signal \in StepSignals
    /\ obs.ticks = signal.warm + MaxSustained
    /\ Len(obs.beatLog) = 1
    /\ ~obs.tick.beat

\* C14: after 60 ticks with every bin at 0, of 5 ticks with bins 0..11 at
\* 255 (ticks 16 or 17 ms apart) the first has beat = true and the other
\* four have beat = false.
C14_BurstFiresOnFirstTickOnly ==
    signal = BurstSignal =>
        /\ obs.ticks <= BurstWarmTicks => obs.beatLog = <<>>
        /\ obs.ticks = BurstWarmTicks + 1 => obs.tick.beat
        /\ obs.ticks > BurstWarmTicks =>
              (Len(obs.beatLog) = 1 /\ app.audioData.beat = (obs.ticks = BurstWarmTicks + 1))

C14_BurstPlayed ==
    /\ signal = BurstSignal
    /\ obs.ticks = BurstWarmTicks + BurstTicks
    /\ obs.delivered /\ ~app.audioData.beat
    /\ Len(obs.beatLog) = 1

\* C15: the palette a render resolves depends on the scheme id only:
\* rainbow gives 7 colours, blue, fire and purple give 4 each, any other id
\* gives the rainbow list, and each of the five visualizers resolves the id
\* to the same list.
C15_PaletteByIdOnly ==
    Rendered =>
        LET id == obs.render.settings.colorScheme
            colors == obs.render.colors
        IN  /\ id = "rainbow" => Len(colors) = 7
            /\ id \in {"blue", "fire", "purple"} => Len(colors) = 4
            /\ id \notin KnownSchemes => colors = RainbowColors
            /\ \A kind \in Modes : getColorScheme(kind, id) = colors

C15_UnknownIdRendered ==
    /\ Rendered
    /\ obs.render.settings.colorScheme = "nonexistent"
    /\ obs.render.kind = "waveform"
    /\ obs.render.colors = RainbowColors

\* C16: for each of the five classes, render with an empty buffer (the
\* frequency data, or the time-domain data for Waveform) raises nothing,
\* issues no drawing command and leaves every field of the instance as it
\* was.
C16_EmptyRenderIsNoOp ==
    (/\ direct.call.op = "render"
     /\ Len(RenderInput(direct.call.before.v, direct.call.audioData)) = 0)
        => /\ direct.call.threw = "nothing"
           /\ ~direct.call.drew
           /\ direct.instance = direct.call.before

C16_EmptyWaveAfterHistory ==
    /\ direct.call.op = "render"
    /\ direct.instance.v.kind = "waveform"
    /\ Len(direct.call.audioData.timeDomainData) = 0
    /\ Len(direct.call.audioData.frequencyData) > 0
    /\ direct.instance.v.waveHistory > 0

\* C17: for every frame of length N >= 1 and every band, the divisor of the
\* band average (endIdx - startIdx) is at least 1, in Spectrum's bars and
\* in Circular's rings.
C17_BandDivisorAtLeastOne ==
    (/\ direct.call.op = "render"
     /\ Len(direct.call.audioData.frequencyData) >= 1)
        => \A i \in DOMAIN direct.call.divisors : direct.call.divisors[i] >= 1

\* C18: from the same Spectrum instance and the same frame, render with
\* sensitivity 2 * s draws every bar at least as high as render with
\* sensitivity s.
C18_BarHeightMonotoneInSensitivity ==
    (/\ direct.call.op = "render"
     /\ direct.call.before.v.kind = "spectrum")
        => LET c == direct.call
               once == render(c.before, c.audioData, c.settings, c.random)
               twice == render(c.before, c.audioData,
                               [c.settings EXCEPT !.sensitivity = 2 * @], c.random)
           IN  /\ once.barHeights = c.barHeights
               /\ DOMAIN twice.barHeights = DOMAIN once.barHeights
               /\ \A i \in DOMAIN once.barHeights :
                      twice.barHeights[i] >= once.barHeights[i]

C18_BarsDrawnAboveZero ==
    /\ direct.call.op = "render"
    /\ direct.call.before.v.kind = "spectrum"
    /\ Len(direct.call.barHeights) = 2
    /\ direct.call.barHeights[1] > 0
    /\ direct.call.before.smoothings > 0

\* C19: the volume of a delivered frame is the root mean square of
\* (sample - 128) / 128 over its time-domain samples.  With the volume kept
\* as the sum S of (sample - 128)^2 over N samples (volume = sqrt(S / N) /
\* 128): a wave alternating between lo and hi has 2 * S = N * ((lo - 128)^2
\* + (hi - 128)^2); S = 0 for constant 128; 0.99^2 <= S / (128^2 * N) <=
\* 1.01^2 for alternating 0 / 255; and 0 <= S <= 128^2 * N always.  The
\* 1% bounds are written with 0.99^2 * 128^2 = 16057 + 599 / 625 and
\* 1.01^2 * 128^2 = 16713 + 199 / 625, which keeps the products small.
C19_VolumeIsCentredRms ==
    obs.delivered =>
        LET x == app.audioData.timeDomainData
            N == Len(x)
            S == app.audioData.volume
            Alternates(lo, hi) ==
                \A i \in 1..N : x[i] = IF i % 2 = 1 THEN lo ELSE hi
        IN  /\ N > 0
            /\ Alternates(x[1], x[2]) =>
                   2 * S = N * ((x[1] - 128) * (x[1] - 128) + (x[2] - 128) * (x[2] - 128))
            /\ Alternates(128, 128) => S = 0
            /\ Alternates(0, 255) =>
                   /\ 599 * N <= 625 * (S - 16057 * N)
                   /\ 625 * (S - 16713 * N) <= 199 * N
            /\ 0 <= S
            /\ S <= 128 * 128 * N

C19_FullScaleAfterSilence ==
    /\ obs.delivered
    /\ obs.ticks = MaxVolumeTicks
    /\ app.audioData.timeDomainData[1] = 0
    /\ app.audioData.timeDomainData[2] = 255
    /\ app.audioData.volume > 0

\* C20: a delivered frame is a snapshot.  The frame the consumer held when
\* a tick ran reads the same after the tick wrote the processor's buffers
\* as it did when it was delivered, in its frequency data, time-domain
\* data, volume and beat; and a display frame that renders leaves the
\* consumer's frame as it was.
C20_FrameIsSnapshot ==
    /\ [](obs.delivered => obs.superseded.is = obs.superseded.was)
    /\ [][(obs'.frame /\ obs'.render # NoRender) => app'.audioData = app.audioData]_vars

C20_SupersededFrameDiffers ==
    /\ obs.delivered
    /\ obs.ticks >= 2
    /\ obs.superseded.was.frequencyData # app.audioData.frequencyData
    /\ obs.superseded.was.frequencyData # InitialAudioData.frequencyData

\* C21: after any number of ticks the bass history holds at most 43
\* entries, and they are the bass levels of the most recent ticks in the
\* order of arrival (obs.bassLog holds the level of every tick).
C21_HistoryIsLatestTicks ==
    LET n == Len(obs.bassLog)
        kept == Min(historyCapacity, n)
    IN  /\ Len(ap.bassHistory) <= historyCapacity
        /\ ap.bassHistory = SubSeq(obs.bassLog, n - kept + 1, n)

C21_OldestDropped ==
    /\ Len(obs.bassLog) > historyCapacity + 1
    /\ ap.bassHistory[1] # obs.bassLog[1]
    /\ ap.bassHistory[1] # ap.bassHistory[2]

\* C22: the first tick of a fresh beat detector never returns true,
\* whatever the frequency magnitudes are: its history holds the one sample,
\* so the rolling mean is the sample.
C22_FirstTickNeverFires ==
    obs.ticks = 1 =>
        /\ ~obs.tick.beat
        /\ ~app.audioData.beat
        /\ ap.bassHistory = <<bassSumOf(app.audioData.frequencyData)>>
        /\ ap.lastBeatTime = 0

C22_LoudFirstTick ==
    /\ obs.ticks = 1
    /\ obs.delivered
    /\ bassSumOf(app.audioData.frequencyData) = bassBins * ByteMax
    /\ IntervalElapsed(obs.tick.at - obs.tick.lastBeatTime)

\* C23: an instance that received destroy receives no later render: the
\* engine destroys the active visualizer on a mode switch or at teardown
\* only, not between two renders of the same mode.
C23_NoRenderAfterDestroy ==
    Rendered => ~obs.render.destroyed

\* C24: for frames of length 128 and 256, Spectrum's bands number at most
\* 64, are contiguous and non-overlapping, and together cover every index
\* 0..N-1 of the frequency data.
C24_BandsPartitionSpectrum ==
    (/\ direct.call.op = "render"
     /\ direct.call.before.v.kind = "spectrum"
     /\ Len(direct.call.audioData.frequencyData) \in AnalyserLengths)
        => LET bands == direct.call.bands
               N == Len(direct.call.audioData.frequencyData)
           IN  /\ Len(bands) >= 1
               /\ Len(bands) <= maxBars
               /\ bands[1].startIdx = 0
               /\ \A i \in 1..Len(bands) : bands[i].startIdx < bands[i].endIdx
               /\ \A i \in 1..(Len(bands) - 1) : bands[i].endIdx = bands[i + 1].startIdx
               /\ bands[Len(bands)].endIdx = N

\* A Particle render that drew its pool.
ParticleRendered ==
    /\ direct.call.op = "render"
    /\ direct.call.before.v.kind = "particle"
    /\ direct.call.drew

\* C25: in every Particle render, every particle that is drawn has a color
\* of the palette resolved from settings.colorScheme for that render, a
\* particle respawned during that render included.
C25_DrawnColorsFromPalette ==
    ParticleRendered
        => LET palette == ParticleColorScheme(direct.call.settings.colorScheme)
           IN  \A i \in 1..Len(direct.call.colors) :
                   \E k \in 1..Len(palette) : direct.call.colors[i] = palette[k]

\* C27: render never changes the size of the Particle pool, and after every
\* render every particle has life > 0: one whose life reached 0 was replaced
\* in its slot by a freshly seeded one.
C27_PoolKeptAndAlive ==
    ParticleRendered
        => /\ Len(direct.instance.pool) = Len(direct.call.before.pool)
           /\ \A i \in 1..Len(direct.instance.pool) :
                  RatAbove(direct.instance.pool[i].life, 0)

\* A render in which the life of a particle reached 0.
C27_LifeRanOut ==
    /\ ParticleRendered
    /\ \E i \in 1..Len(direct.call.before.pool) :
           /\ direct.call.before.pool[i].life = <<1, 1>>
           /\ direct.instance.pool[i] =
                  createParticle(direct.instance.v.width, direct.instance.v.height,
                                 direct.call.random[i])

\* C28: after every resize and every render of the Particle visualizer,
\* every particle has 0 <= x <= width and 0 <= y <= height for the current
\* dimensions, whatever configure, resize and render calls came before.
C28_ParticlesInsideSurface ==
    (/\ direct.call.op \in {"resize", "render"}
     /\ direct.instance.v.kind = "particle")
        => \A i \in 1..Len(direct.instance.pool) :
               LET particle == direct.instance.pool[i]
               IN  /\ ~RatBelow(particle.x, 0)
                   /\ ~RatAbove(particle.x, direct.instance.v.width)
                   /\ ~RatBelow(particle.y, 0)
                   /\ ~RatAbove(particle.y, direct.instance.v.height)

\* A render that moved a particle past an edge and put it back on it.
C28_BouncedOffEdge ==
    /\ ParticleRendered
    /\ direct.instance.v.width > 0
    /\ \E i \in 1..Len(direct.instance.pool) :
           LET was == direct.call.before.pool[i]
               is == direct.instance.pool[i]
           IN  /\ RatAbove(was.life, 1)
               /\ RatBelow(was.x, direct.instance.v.width)
               /\ is.x = <<direct.instance.v.width, 1>>
               /\ RatBelow(is.vx, 0)

\* C30: for every frame length N >= 1, every index at which a render reads
\* the frequency data lies in 0..N-1: Particle's per-particle and
\* per-connection indices, Circular's radial-bar index, Abstract's shape,
\* background and color-band indices.
C30_ReadsInsideFrame ==
    direct.call.op = "render"
        => \A k \in direct.call.reads :
               0 <= k /\ k < Len(direct.call.audioData.frequencyData)

\* A Particle render that read the data for a connection between its two
\* last particles, the largest index a connection has.
C30_ConnectionRead ==
    /\ ParticleRendered
    /\ Len(direct.instance.pool) = 3
    /\ Connected(direct.instance.pool[2], direct.instance.pool[3])
    /\ ConnectionIndex(1, 2, 3, Len(direct.call.audioData.frequencyData))
           \in direct.call.reads
    /\ Len(direct.call.audioData.frequencyData) = MaxFrameLength

\* C26: after destroy() on the extractor no frame is ever delivered again,
\* whatever pause() and resume() calls follow.
C26_NoFrameAfterDestroy ==
    obs.destroys > 0 => ~obs.delivered

\* C29: whatever construct, pause, resume and destroy calls and display
\* frames came before, at most one processAudioData callback is pending.
C29_OneExtractionPending ==
    Cardinality({r \in raf : r.cb = "processAudioData"}) <= 1

\* A resume() after a destroy() started the tick again, with one callback.
C29_RestartedAfterDestroy ==
    /\ obs.destroys > 0
    /\ obs.call = "resume"
    /\ ap.isProcessing
    /\ Cardinality({r \in raf : r.cb = "processAudioData"}) = 1

====
